---------------------------- MODULE Spec2Model ----------------------------
(***************************************************************************)
(* AsGuJu Pro (src/server.js): the pasal (statute citation) pipeline.      *)
(*                                                                         *)
(*   extractPasalReferences   scans the AI text with two regular           *)
(*                            expressions and returns the list of keys     *)
(*   verifyPasalOnline        probes BPK, Mahkamah Agung and Google for    *)
(*                            one key, sequentially                        *)
(*   POST /api/analyze        maps verifyPasalOnline over the keys and     *)
(*                            awaits Promise.all                           *)
(*                                                                         *)
(* A JavaScript string is modelled as a sequence of atoms.  An atom is a   *)
(* run of characters that the regular expressions of the program never     *)
(* split: a single digit, a single blank, a single punctuation mark or a   *)
(* word made of letters only.  Two strings are equal exactly when their    *)
(* atom sequences are equal.                                               *)
(***************************************************************************)
EXTENDS Naturals, Sequences, FiniteSets, TLC

VARIABLES
    \* ---- extractPasalReferences, called on its own
    text,       \* the input under examination
    matches,    \* the array `matches` built by the most recent scan (server.js:92)
    calls,      \* the calls made so far, oldest first: argument, outcome
    \* ---- POST /api/analyze from the AI answer on (server.js:198-212)
    resultText,     \* the text of the AI answer
    hpc,            \* where the handler is: "received", "calling", "extract",
                    \* "verifying", "settled", or finished: "responded",
                    \* "nokey", "apifailed", "failed"
    pasals,         \* the keys extractPasalReferences returned
    vcall,          \* vcall[i]: the local state of verifyPasalOnline(pasals[i])
    issued,         \* issued[i]: the requests call i has sent, oldest first
    resps,          \* resps[i]: the responses call i has received, when recorded
    done,           \* the calls in the order in which they completed
    verifications,  \* the array Promise.all resolved to
    rec,            \* whether the responses are recorded in resps
    \* ---- POST /api/analyze, the request around the analysis
    apiKey,         \* whether GEMINI_API_KEY is set in the environment
    uploads,        \* the temp files of the request that are on disk
    sent,           \* the status codes of the HTTP responses sent, oldest first
    \* ---- the upload page (public/app.js)
    filesToUpload,  \* the array filesToUpload (app.js:8)
    fileList,       \* the items of #fileList, each with the file of its closure
    added           \* the number of File objects the page has been given

extractVars == <<text, matches, calls>>
handlerVars ==
    <<resultText, hpc, pasals, vcall, issued, resps, done, verifications, rec>>
requestVars == <<apiKey, uploads, sent>>
uiVars == <<filesToUpload, fileList, added>>
vars == <<extractVars, handlerVars, requestVars, uiVars>>

----------------------------------------------------------------------------
(* Bounds of the model *)

MaxMentions == 2    \* citations per generated text
MaxRepeat   == 3    \* repetitions of one citation in a repeated text
MaxCalls    == 3    \* calls of extractPasalReferences in one behaviour
MaxFiles    == 2    \* files uploaded with one request
MaxAdded    == 4    \* File objects given to the page in one behaviour

----------------------------------------------------------------------------
(* Strings as atom sequences *)

Digits == {"0", "1", "2", "3", "4", "5", "6", "7", "8", "9"}

\* String.prototype.toLowerCase on one atom
Lower(a) ==
    CASE a \in {"Pasal", "PASAL", "pasal"}  -> "pasal"
      [] a \in {"KUHP", "Kuhp", "kuhp"}     -> "kuhp"
      [] a \in {"KUHAP", "kuhap"}           -> "kuhap"
      [] a \in {"Kitab", "kitab"}           -> "kitab"
      [] a \in {"Undang", "undang"}         -> "undang"
      [] a \in {"Hukum", "hukum"}           -> "hukum"
      [] a \in {"Pidana", "pidana"}         -> "pidana"
      [] a \in {"Ayat", "ayat"}             -> "ayat"
      [] a \in {"Menurut", "menurut"}       -> "menurut"
      [] OTHER                              -> a

LowerStr(s) == [i \in 1..Len(s) |-> Lower(s[i])]

IsSpace(a) == a = " "

\* atoms made of letters only
Words == {"Pasal", "PASAL", "pasal", "KUHP", "Kuhp", "kuhp", "KUHAP", "kuhap",
          "Kitab", "kitab", "Undang", "undang", "Hukum", "hukum",
          "Pidana", "pidana", "Ayat", "ayat", "Menurut", "menurut",
          "dan", "jo", "tidak", "ditemukan", "hasil"}

\* the printed form of an atom sequence
RECURSIVE Str(_)
Str(s) == IF s = <<>> THEN "" ELSE Head(s) \o Str(Tail(s))

\* number of consecutive atoms from position p on that satisfy the test
RECURSIVE Run(_, _, _)
Run(t, p, set) ==
    IF p <= Len(t) /\ t[p] \in set THEN 1 + Run(t, p + 1, set) ELSE 0

\* \s
Spaces == {" "}

\* [0-9a-zA-Z\)\-]
ClassAtoms == Digits \cup Words \cup {")", "-"}

Min(a, b) == IF a < b THEN a ELSE b

\* the literal `lit` matches at position p, ignoring case (flag i)
LitAt(t, p, lit) ==
    /\ p + Len(lit) - 1 <= Len(t)
    /\ \A k \in 1..Len(lit) : Lower(t[p + k - 1]) = Lower(lit[k])

\* the one element of a singleton set; Only({e(x) : x \in {v}}) evaluates v
\* once and e on the value
Only(S) == CHOOSE x \in S : TRUE

\* String.prototype.trim
RECURSIVE FirstNonSpace(_, _)
FirstNonSpace(s, p) ==
    IF p <= Len(s) /\ IsSpace(s[p]) THEN FirstNonSpace(s, p + 1) ELSE p
RECURSIVE LastNonSpace(_, _)
LastNonSpace(s, p) ==
    IF p >= 1 /\ IsSpace(s[p]) THEN LastNonSpace(s, p - 1) ELSE p
Trim(s) == SubSeq(s, FirstNonSpace(s, 1), LastNonSpace(s, Len(s)))

----------------------------------------------------------------------------
(* The two regular expressions of extractPasalReferences *)

\* Kitab Undang-Undang Hukum Pidana
KitabLit == <<"Kitab", " ", "Undang", "-", "Undang", " ", "Hukum", " ", "Pidana">>

\* (KUHP|KUHAP|Kitab Undang-Undang Hukum Pidana|), in the order the engine tries them
CodeAlternatives == << <<"KUHP">>, <<"KUHAP">>, KitabLit, <<>> >>

\* the text captured by the code group at position p: the first alternative
\* that matches there (the last one, empty, always does)
CodeAt(t, p) ==
    LET i == CHOOSE i \in 1..Len(CodeAlternatives) :
                 /\ LitAt(t, p, CodeAlternatives[i])
                 /\ \A j \in 1..(i - 1) : ~LitAt(t, p, CodeAlternatives[j])
    IN  SubSeq(t, p, p + Len(CodeAlternatives[i]) - 1)

\* \(?[0-9a-zA-Z\)\-]+ at position q: the position after the match, 0 when
\* it does not match
ClauseAt(t, q) ==
    Only({ IF Run(t, r, ClassAtoms) >= 1 THEN r + Run(t, r, ClassAtoms) ELSE 0 :
           r \in {IF q <= Len(t) /\ t[q] = "(" THEN q + 1 ELSE q} })

\* ayat\s*\(?[0-9a-zA-Z\)\-]+ at position p: the position after the match,
\* 0 when it does not match
AyatAt(t, p) ==
    IF ~LitAt(t, p, <<"ayat">>) THEN 0
    ELSE Only({ ClauseAt(t, q) : q \in {p + 1 + Run(t, p + 1, Spaces)} })

\* one iteration \s*(?:ayat...)? from position p: the position after it
IterationAt(t, p) ==
    Only({ IF AyatAt(t, s) # 0 THEN AyatAt(t, s) ELSE s :
           s \in {p + Run(t, p, Spaces)} })

\* (?:\s*(?:ayat...)?)* from position p: the position after the last
\* iteration.  An iteration that consumes nothing ends the repetition.
RECURSIVE GroupStar(_, _)
GroupStar(t, p) ==
    Only({ IF e = p THEN p ELSE GroupStar(t, e) : e \in {IterationAt(t, p)} })

NoMatch == [found |-> FALSE, num |-> <<>>, code |-> <<>>, end |-> 0]

\* ([0-9]{1,4}) at position d: the capture and the position after it
DigitsAt(t, d) ==
    Only({ IF nd >= 1
           THEN [found |-> TRUE, num |-> SubSeq(t, d, d + nd - 1),
                 code |-> <<>>, end |-> d + nd]
           ELSE NoMatch :
           nd \in {Min(Run(t, d, Digits), 4)} })

\* Pasal\s+([0-9]{1,4}) at position p (flag i): the capture and the
\* position after the digits
HeadAt(t, p) ==
    IF ~LitAt(t, p, <<"Pasal">>) THEN NoMatch
    ELSE Only({ IF ns >= 1 THEN DigitsAt(t, p + 1 + ns) ELSE NoMatch :
                ns \in {Run(t, p + 1, Spaces)} })

\* \s*(KUHP|KUHAP|Kitab Undang-Undang Hukum Pidana|) at position g, after
\* the head h has matched
CodeGroupAt(t, h, g) ==
    Only({ [found |-> TRUE, num |-> h.num, code |-> m2, end |-> g + Len(m2)] :
           m2 \in {CodeAt(t, g)} })

\* the first regular expression (server.js:91) anchored at position p
RegexAt(t, p) ==
    Only({ IF ~h.found THEN NoMatch
           ELSE Only({ CodeGroupAt(t, h, c + Run(t, c, Spaces)) :
                       c \in {GroupStar(t, h.end)} }) :
           h \in {HeadAt(t, p)} })

\* the second regular expression (server.js:101) anchored at position p
Regex2At(t, p) == HeadAt(t, p)

\* regex.exec(text) with the g flag, trying the start positions p, p + 1, ...
\* in turn: the leftmost match; `end` is the new lastIndex (the number of
\* atoms before the end of the match), found = FALSE is the null result
RECURSIVE ExecFrom(_, _)
ExecFrom(t, p) ==
    IF p > Len(t) THEN NoMatch
    ELSE Only({ IF m.found THEN [m EXCEPT !.end = m.end - 1] ELSE ExecFrom(t, p + 1) :
                m \in {RegexAt(t, p)} })

RECURSIVE Exec2From(_, _)
Exec2From(t, p) ==
    IF p > Len(t) THEN NoMatch
    ELSE Only({ IF m.found THEN [m EXCEPT !.end = m.end - 1] ELSE Exec2From(t, p + 1) :
                m \in {Regex2At(t, p)} })

\* regex.exec(text) with lastIndex = li
Exec(t, li) == ExecFrom(t, li + 1)

\* regex2.exec(text) with lastIndex = li
Exec2(t, li) == Exec2From(t, li + 1)

----------------------------------------------------------------------------
(* extractPasalReferences (server.js:89-108) *)

Includes(ms, key) == \E i \in 1..Len(ms) : ms[i] = key

\* a variant that pushes every key: matches.push(key)
PushAlways(ms, key) == Append(ms, key)

\* a variant that puts a new key in front: matches.unshift(key)
PushFront(ms, key) == IF Includes(ms, key) THEN ms ELSE <<key>> \o ms

\* if (!matches.includes(key)) matches.push(key)
PushNew(ms, key) == IF Includes(ms, key) THEN ms ELSE Append(ms, key)

DefaultCode == <<"KUHP">>

\* a variant without the default: m[2].trim()
SuffixNoDefault(m2) == Trim(m2)

\* m[2] && m[2].trim() !== '' ? m[2].trim() : 'KUHP'
Suffix(m2) == IF m2 # <<>> /\ Trim(m2) # <<>> THEN Trim(m2) ELSE DefaultCode

\* `Pasal ${num} ${suffix}`.trim()
Key(num, suffix) == Trim(<<"Pasal", " ">> \o num \o <<" ">> \o suffix)

\* the first while loop (server.js:94-99), from lastIndex li with matches ms
RECURSIVE Pass1(_, _, _)
Pass1(t, li, ms) ==
    Only({ IF ~m.found THEN ms
           ELSE Only({ Pass1(t, m.end, ms2) :
                       ms2 \in {PushNew(ms, Key(m.num, Suffix(m.code)))} }) :
           m \in {Exec(t, li)} })

\* the second while loop (server.js:102-106)
RECURSIVE Pass2(_, _, _)
Pass2(t, li, ms) ==
    Only({ IF ~m.found THEN ms
           ELSE Only({ Pass2(t, m.end, ms2) :
                       ms2 \in {PushNew(ms, Key(m.num, DefaultCode))} }) :
           m \in {Exec2(t, li)} })

\* JavaScript values passed as the argument
StringValue(s) == [type |-> "string", val |-> s]
NullValue      == [type |-> "null", val |-> <<>>]
UndefinedValue == [type |-> "undefined", val |-> <<>>]

\* a variant that tests the length: if (text.length === 0) return [];
\* reading .length of null or undefined raises a TypeError
GuardLength(x) ==
    IF x.type \in {"null", "undefined"} THEN "throw"
    ELSE IF Len(x.val) = 0 THEN "return" ELSE "scan"

\* if (!text) return [];  "return", "scan" or "throw"
Guard(x) ==
    IF x.type \in {"null", "undefined"} \/ x.val = <<>> THEN "return" ELSE "scan"

\* a variant with the array at module level, never emptied
SharedMatches == matches

\* const matches = [];
NewMatches == <<>>

\* the value extractPasalReferences(x) returns, for an argument that passes the guard
Scan(x) == Only({ Pass2(x.val, 0, ms) : ms \in {Pass1(x.val, 0, NewMatches)} })

\* the function on a string, as the handler calls it
extractPasalReferences(s) ==
    IF Guard(StringValue(s)) = "return" THEN <<>> ELSE Scan(StringValue(s))

----------------------------------------------------------------------------
(* The texts the extractor is run on *)

Markers == {"Pasal", "pasal"}
Numbers == { <<"3", "4", "0">>, <<"1", "2", "3", "4", "5">> }
Tails   == { <<>>,
             <<" ", "KUHP">>,
             <<" ", "kuhp">>,
             <<" ", "KUHAP">>,
             <<" ", "ayat", " ", "(", "1", ")", " ", "KUHP">>,
             <<" ">> \o KitabLit }

\* one citation as it appears in a text
Mention(mk, n, tl) == <<mk, " ">> \o n \o tl
\* every number and tail after "Pasal"; the lower-case marker with and
\* without a lower-case code
Mentions ==
    {Mention("Pasal", n, tl) : n \in Numbers, tl \in Tails}
        \cup {Mention("pasal", <<"3", "4", "0">>, tl) : tl \in {<<>>, <<" ", "kuhp">>}}

Separator == <<" ", "dan", " ">>

RECURSIVE Join(_)
Join(ps) ==
    IF ps = <<>> THEN <<>>
    ELSE IF Len(ps) = 1 THEN ps[1]
    ELSE ps[1] \o Separator \o Join(Tail(ps))

GeneratedTexts ==
    {Join(ps) : ps \in UNION {[1..k -> Mentions] : k \in 0..MaxMentions}}

RepeatedTexts ==
    {Join([i \in 1..k |-> p]) : p \in Mentions, k \in 1..MaxRepeat}

\* "Menurut Pasal 340 KUHP dan Pasal 55, ..."
ExampleText ==
    <<"Menurut", " ", "Pasal", " ", "3", "4", "0", " ", "KUHP", " ", "dan", " ",
      "Pasal", " ", "5", "5", ",", " ", ".", ".", ".">>

\* "Pasal 55"
BareText == <<"Pasal", " ", "5", "5">>

\* "Pasal 340 KUHP, Pasal 55 jo Pasal 340 KUHP"
MixedText ==
    <<"Pasal", " ", "3", "4", "0", " ", "KUHP", ",", " ", "Pasal", " ", "5", "5",
      " ", "jo", " ", "Pasal", " ", "3", "4", "0", " ", "KUHP">>

SampleTexts == {ExampleText, BareText, MixedText}

Texts == GeneratedTexts \cup RepeatedTexts \cup SampleTexts

Inputs == {StringValue(t) : t \in Texts} \cup {NullValue, UndefinedValue}

\* the text of another request, analysed between two calls on `text`
OtherInputs == {StringValue(MixedText)}

----------------------------------------------------------------------------
(* Calls of extractPasalReferences *)

\* the handler before any request
HandlerIdle ==
    /\ resultText = <<>>
    /\ hpc = "idle"
    /\ pasals = <<>>
    /\ vcall = <<>>
    /\ issued = <<>>
    /\ resps = <<>>
    /\ done = <<>>
    /\ verifications = <<>>
    /\ rec = FALSE
    /\ apiKey = FALSE
    /\ uploads = {}
    /\ sent = <<>>

\* the page as loaded: let filesToUpload = []; and an empty #fileList
UiIdle ==
    /\ filesToUpload = <<>>
    /\ fileList = <<>>
    /\ added = 0

InitExtract ==
    /\ text \in Inputs
    /\ matches = <<>>
    /\ calls = <<>>
    /\ HandlerIdle
    /\ UiIdle

\* one call extractPasalReferences(x)
Call(x) ==
    /\ Len(calls) < MaxCalls
    /\ LET g == Guard(x) IN
         CASE g = "return" ->
                /\ calls' = Append(calls, [arg |-> x, threw |-> FALSE, ret |-> <<>>])
                /\ UNCHANGED matches
           [] g = "scan" ->
                /\ matches' = Scan(x)
                /\ calls' = Append(calls, [arg |-> x, threw |-> FALSE, ret |-> matches'])
           [] OTHER ->
                /\ calls' = Append(calls, [arg |-> x, threw |-> TRUE, ret |-> <<>>])
                /\ UNCHANGED matches
    /\ UNCHANGED <<text, handlerVars, requestVars, uiVars>>

\* extractPasalReferences(text)
ExtractCall == Call(text)

\* extractPasalReferences on the text of another request
ExtractOther == \E o \in OtherInputs : Call(o)

NextExtract == ExtractCall \/ ExtractOther

SpecExtract == InitExtract /\ [][NextExtract]_vars

----------------------------------------------------------------------------
(* verifyPasalOnline (server.js:114-172): strings and requests *)

\* the string s without the atoms at positions p .. p + n - 1
Cut(s, p, n) == SubSeq(s, 1, p - 1) \o SubSeq(s, p + n, Len(s))

\* the first position from p on where /Pasal\s+/i matches, 0 when none
RECURSIVE FindMarker(_, _)
FindMarker(s, p) ==
    IF p > Len(s) THEN 0
    ELSE IF LitAt(s, p, <<"Pasal">>) /\ Run(s, p + 1, Spaces) >= 1 THEN p
    ELSE FindMarker(s, p + 1)

\* pasal.replace(/Pasal\s+/i, ''): the first match is removed
RemoveMarker(s) ==
    Only({ IF p = 0 THEN s ELSE Cut(s, p, 1 + Run(s, p + 1, Spaces)) :
           p \in {FindMarker(s, 1)} })

\* the first position from p on where /KUHP/i matches, 0 when none
RECURSIVE FindKuhp(_, _)
FindKuhp(s, p) ==
    IF p > Len(s) THEN 0
    ELSE IF LitAt(s, p, <<"KUHP">>) THEN p
    ELSE FindKuhp(s, p + 1)

\* .replace(/KUHP/i, ''): the first match is removed
RemoveKuhp(s) ==
    Only({ IF p = 0 THEN s ELSE Cut(s, p, 1) : p \in {FindKuhp(s, 1)} })

\* const pasalOnly = pasal.replace(/Pasal\s+/i, '').replace(/KUHP/i, '').trim()
PasalOnly(pasal) ==
    Only({ Only({ Trim(y) : y \in {RemoveKuhp(x)} }) : x \in {RemoveMarker(pasal)} })

\* the three queries pushed at server.js:120-122
Queries(pasalOnly) ==
    << <<"KUHP", " ", "Pasal", " ">> \o pasalOnly,
       <<"Pasal", " ">> \o pasalOnly \o <<" ", "KUHP">>,
       <<"Kitab", " ", "Undang", " ", "Undang", " ", "Hukum", " ", "Pidana", " ",
         "Pasal", " ">> \o pasalOnly >>

\* queries.length
NumQueries == Len(Queries(<<>>))

BPK    == "peraturan.bpk.go.id"
MA     == "putusan.mahkamahagung.go.id"
GOOGLE == "google_search"

\* the URL of a request: the site and the query that is URI-encoded into it
Url(site, query) == [site |-> site, query |-> query]

\* the url built before the axios.get of a stage (server.js:127,144,159)
UrlOf(pc, q, pasal) ==
    CASE pc = "bpk" -> Url(BPK, Queries(PasalOnly(pasal))[q])
      [] pc = "ma"  -> Url(MA, <<"Pasal", " ">> \o PasalOnly(pasal))
      [] OTHER      -> Url(GOOGLE, pasal \o <<" ", "KUHP">>)

\* the source pushed when the probe of a stage matches (server.js:132,149,164)
Hit(pc, q, pasal) ==
    [site |-> UrlOf(pc, q, pasal).site,
     url |-> UrlOf(pc, q, pasal),
     snippet |-> CASE pc = "bpk" -> "Found on BPK search results (HTML match)"
                   [] pc = "ma"  -> "Found in MA search results (HTML match)"
                   [] OTHER      -> "Found with google search (HTML match)"]

\* String.prototype.includes
Contains(h, n) ==
    \E p \in 1..(Len(h) + 1) :
        p + Len(n) - 1 <= Len(h) /\ SubSeq(h, p, p + Len(n) - 1) = n

\* the first position from p on where the literal lit stands, 0 when none
RECURSIVE FindLit(_, _, _)
FindLit(s, lit, p) ==
    IF p + Len(lit) - 1 > Len(s) THEN 0
    ELSE IF SubSeq(s, p, p + Len(lit) - 1) = lit THEN p
    ELSE FindLit(s, lit, p + 1)

\* the first position from p on that holds a blank, Len(s) + 1 when none
RECURSIVE FindSpace(_, _)
FindSpace(s, p) ==
    IF p > Len(s) \/ IsSpace(s[p]) THEN p ELSE FindSpace(s, p + 1)

\* pasal.replace('Pasal ', '').split(' ')[0]
GoogleNeedle(pasal) ==
    Only({ Only({ SubSeq(x, 1, FindSpace(x, 1) - 1) :
                  x \in {IF p = 0 THEN pasal ELSE Cut(pasal, p, 2)} }) :
           p \in {FindLit(pasal, <<"Pasal", " ">>, 1)} })

----------------------------------------------------------------------------
(* Responses of the three sites *)

ObjectValue == [type |-> "object", val |-> <<>>]

\* axios.get rejects: timeout, DNS failure, status outside 2xx
TransportError == [kind |-> "error", data |-> UndefinedValue]

\* axios.get resolves with r.data = d
Ok(d) == [kind |-> "ok", data |-> d]

\* "Pasal 340 KUHP"
Html340 == <<"Pasal", " ", "3", "4", "0", " ", "KUHP">>

\* "hasil pasal 55"
Html55 == <<"hasil", " ", "pasal", " ", "5", "5">>

\* "tidak ditemukan"
HtmlNone == <<"tidak", " ", "ditemukan">>

\* the responses recorded runs draw from: a transport error, a JSON body
\* that axios parsed into an object, and a page
RecordedResponses ==
    {TransportError, Ok(ObjectValue), Ok(StringValue(Html340))}

Responses ==
    RecordedResponses \cup
        {Ok(StringValue(Html55)), Ok(StringValue(<<>>)), Ok(StringValue(HtmlNone))}

\* const html = r.data || ''
HtmlOf(r) == IF r.data.type = "string" THEN r.data.val ELSE <<>>

\* html && html.toLowerCase().includes(`pasal`) && html.toLowerCase().includes(pasalOnly)
MatchesOfficial(html, pasalOnly) ==
    /\ html # <<>>
    /\ Contains(LowerStr(html), <<"pasal">>)
    /\ Contains(LowerStr(html), pasalOnly)

\* html && html.toLowerCase().includes('kuhp') && html.toLowerCase().includes(<number>)
MatchesGoogle(html, pasal) ==
    /\ html # <<>>
    /\ Contains(LowerStr(html), <<"kuhp">>)
    /\ Contains(LowerStr(html), GoogleNeedle(pasal))

\* the response makes the try block throw: axios.get rejected, or r.data is
\* a truthy value without toLowerCase (TypeError)
Throws(r) == r.kind = "error" \/ r.data.type = "object"

\* a variant whose catch block throws the error on
Rethrow == "throw"

\* catch (e) { /* ignore and try next */ }
CatchBlock == "caught"

\* one try block (server.js:126-137, 142-153, 158-168) on the response r:
\* "match", "nomatch", "caught", or "throw" when the exception leaves the call
ProbeOutcome(pc, r, pasal) ==
    IF Throws(r) THEN CatchBlock
    ELSE IF pc = "google"
         THEN (IF MatchesGoogle(HtmlOf(r), pasal) THEN "match" ELSE "nomatch")
         ELSE (IF MatchesOfficial(HtmlOf(r), PasalOnly(pasal)) THEN "match" ELSE "nomatch")

----------------------------------------------------------------------------
(* verifyPasalOnline (server.js:114-172): one call *)

\* a call is suspended at an await axios.get in one of these stages
Awaiting == {"bpk", "ma", "google"}

\* the call up to its first await: results, queries, the first BPK request
NewCall(pasal) ==
    [pc |-> "bpk", q |-> 1,
     results |-> [pasal |-> pasal, verified |-> FALSE, sources |-> <<>>]]

\* a variant that sets the flag and forgets the source
MatchedNoSource(c) == [c EXCEPT !.results.verified = TRUE]

\* results.verified = true; results.sources.push({...})
Matched(c) ==
    [c EXCEPT !.results.verified = TRUE,
              !.results.sources = Append(@, Hit(c.pc, c.q, c.results.pasal))]

\* a variant in which results is one object shared by all calls
NotVerifiedByAnyCall(c) ==
    /\ ~c.results.verified
    /\ \A j \in 1..Len(vcall) : ~vcall[j].results.verified

\* !results.verified (server.js:141,157)
NotVerified(c) == ~c.results.verified

\* return results
Return(c) == [c EXCEPT !.pc = "returned"]

\* if (!results.verified) { the Google request } (server.js:157-169)
GoogleStage(c) == IF NotVerified(c) THEN [c EXCEPT !.pc = "google"] ELSE Return(c)

\* if (!results.verified) { the Mahkamah Agung request } (server.js:141-154)
MaStage(c) == IF NotVerified(c) THEN [c EXCEPT !.pc = "ma"] ELSE GoogleStage(c)

\* a variant whose loop ends after its first turn
LoopOnce(c) == MaStage(c)

\* the next turn of for (const q of queries), or the end of the loop
NextQuery(c) == IF c.q < NumQueries THEN [c EXCEPT !.q = c.q + 1] ELSE MaStage(c)

\* a variant without the break: the loop goes on after a match
NoBreak(c) == NextQuery(c)

\* break (server.js:133)
Break(c) == MaStage(c)

\* the call from the response r to its await on, up to the next await or
\* to its end
Resume(c, r) ==
    Only({ CASE out = "throw"     -> [c EXCEPT !.pc = "threw"]
             [] c.pc = "bpk"      -> IF out = "match" THEN Break(Matched(c)) ELSE NextQuery(c)
             [] c.pc = "ma"       -> IF out = "match" THEN GoogleStage(Matched(c))
                                                      ELSE GoogleStage(c)
             [] OTHER             -> IF out = "match" THEN Return(Matched(c)) ELSE Return(c) :
           out \in {ProbeOutcome(c.pc, r, c.results.pasal)} })

----------------------------------------------------------------------------
(* POST /api/analyze (server.js:198-212) *)

\* the AI answers of the requests
\* "Pasal 340, Pasal 55, Pasal 7"
ThreeText ==
    <<"Pasal", " ", "3", "4", "0", ",", " ", "Pasal", " ", "5", "5", ",", " ",
      "Pasal", " ", "7">>


\* "Pasal 340 KUHAP"
KuhapText == <<"Pasal", " ", "3", "4", "0", " ", "KUHAP">>

AnalysisTexts == {HtmlNone, BareText, ExampleText, ThreeText, KuhapText}

RecordedTexts == {BareText, ExampleText, KuhapText}

\* the temp files multer may have written for the request
Files == 1..MaxFiles

\* the handler is entered: multer has stored the files of the request
InitHandler ==
    /\ resultText = <<>>
    /\ hpc = "received"
    /\ apiKey \in BOOLEAN
    /\ uploads \in SUBSET Files
    /\ sent = <<>>
    /\ pasals = <<>>
    /\ vcall = <<>>
    /\ issued = <<>>
    /\ resps = <<>>
    /\ done = <<>>
    /\ verifications = <<>>

\* extractPasalReferences is not called on its own
ExtractIdle ==
    /\ text = UndefinedValue
    /\ matches = <<>>
    /\ calls = <<>>

Init == ExtractIdle /\ InitHandler /\ rec = FALSE /\ UiIdle

InitRecorded ==
    /\ ExtractIdle
    /\ InitHandler
    /\ uploads = Files
    /\ rec = TRUE
    /\ UiIdle

\* the texts of the uploaded files are read, the prompt is built and the
\* key is looked up (server.js:176-189); without a key the handler answers
\* 500 and returns
Prepare ==
    /\ hpc = "received"
    /\ IF apiKey
       THEN hpc' = "calling" /\ UNCHANGED sent
       ELSE hpc' = "nokey" /\ sent' = Append(sent, 500)
    /\ UNCHANGED <<resultText, pasals, vcall, issued, resps, done, verifications,
                   rec, apiKey, uploads, extractVars, uiVars>>

\* await axios.post(endpoint, ...) resolves and resultText is taken from the
\* answer (server.js:196-198)
Generate ==
    /\ hpc = "calling"
    /\ resultText' \in (IF rec THEN RecordedTexts ELSE AnalysisTexts)
    /\ hpc' = "extract"
    /\ UNCHANGED <<pasals, vcall, issued, resps, done, verifications, rec,
                   requestVars, extractVars, uiVars>>

\* await axios.post(endpoint, ...) rejects: the catch block answers 500
\* (server.js:213-216)
GenerateFails ==
    /\ hpc = "calling"
    /\ hpc' = "apifailed"
    /\ sent' = Append(sent, 500)
    /\ UNCHANGED <<resultText, pasals, vcall, issued, resps, done, verifications,
                   rec, apiKey, uploads, extractVars, uiVars>>

\* const pasals = extractPasalReferences(resultText);
\* const verifyPromises = pasals.map(p => verifyPasalOnline(p));
\* every call runs to its first await
FanOut ==
    /\ hpc = "extract"
    /\ hpc' = "verifying"
    /\ pasals' = extractPasalReferences(resultText)
    /\ vcall' = [i \in 1..Len(pasals') |-> NewCall(pasals'[i])]
    /\ issued' = [i \in 1..Len(pasals') |-> <<UrlOf("bpk", 1, pasals'[i])>>]
    /\ resps' = [i \in 1..Len(pasals') |-> <<>>]
    /\ UNCHANGED <<resultText, done, verifications, rec, requestVars, extractVars, uiVars>>

\* the response to the request call i awaits arrives, and the call runs on
Settle(i, r) ==
    /\ vcall[i].pc \in Awaiting
    /\ LET c == Resume(vcall[i], r) IN
         /\ vcall' = [vcall EXCEPT ![i] = c]
         /\ issued' = [issued EXCEPT ![i] =
                IF c.pc \in Awaiting
                THEN Append(@, UrlOf(c.pc, c.q, c.results.pasal)) ELSE @]
         /\ done' = IF c.pc \in Awaiting THEN done ELSE Append(done, i)
    /\ resps' = IF rec THEN [resps EXCEPT ![i] = Append(@, r)] ELSE resps
    /\ UNCHANGED <<resultText, hpc, pasals, verifications, rec, requestVars,
                   extractVars, uiVars>>

Probe ==
    \E i \in 1..Len(vcall) :
        \E r \in (IF rec THEN RecordedResponses ELSE Responses) : Settle(i, r)

\* a variant that collects the results as the calls complete
InCompletionOrder == [k \in 1..Len(done) |-> vcall[done[k]].results]

\* what Promise.all(verifyPromises) resolves to
PromiseAll == [i \in 1..Len(vcall) |-> vcall[i].results]

\* a variant that goes on as soon as one call has completed (Promise.race)
AwaitFirst ==
    /\ hpc = "verifying"
    /\ \E i \in 1..Len(vcall) : vcall[i].pc = "returned"
    /\ hpc' = "settled"
    /\ verifications' = PromiseAll
    /\ UNCHANGED <<resultText, pasals, vcall, issued, resps, done, rec, requestVars,
                   extractVars, uiVars>>

\* const verifications = await Promise.all(verifyPromises); a rejected call
\* rejects Promise.all, and the handler's catch answers 500
AwaitAll ==
    /\ hpc = "verifying"
    /\ \/ \E i \in 1..Len(vcall) : vcall[i].pc = "threw"
       \/ \A i \in 1..Len(vcall) : vcall[i].pc = "returned"
    /\ IF \E i \in 1..Len(vcall) : vcall[i].pc = "threw"
       THEN hpc' = "failed" /\ sent' = Append(sent, 500) /\ UNCHANGED verifications
       ELSE hpc' = "settled" /\ verifications' = PromiseAll /\ UNCHANGED sent
    /\ UNCHANGED <<resultText, pasals, vcall, issued, resps, done, rec, apiKey,
                   uploads, extractVars, uiVars>>

\* for (const file of files) { try { await fs.unlink(file.path); } catch (e) {} }
Cleanup == {}

\* the uploaded files are removed, then
\* return res.json({ success: true, result: resultText, extracted, verifications })
Respond ==
    /\ hpc = "settled"
    /\ hpc' = "responded"
    /\ uploads' = Cleanup
    /\ sent' = Append(sent, 200)
    /\ UNCHANGED <<resultText, pasals, vcall, issued, resps, done, verifications,
                   rec, apiKey, extractVars, uiVars>>

Next ==
    Prepare \/ Generate \/ GenerateFails \/ FanOut \/ Probe \/ AwaitAll \/ Respond

Spec == Init /\ [][Next]_vars

\* the same handler, with the responses of every call recorded
SpecRecorded == InitRecorded /\ [][Next]_vars

----------------------------------------------------------------------------
(* verifyPasalOnline run alone on the responses rs, start to end *)

\* the for loop of server.js:125-138: the query that matched, 0 when none
RECURSIVE BpkLoop(_, _, _)
BpkLoop(pasal, rs, q) ==
    IF q > NumQueries THEN 0
    ELSE IF ProbeOutcome("bpk", rs[q], pasal) = "match" THEN q
    ELSE BpkLoop(pasal, rs, q + 1)

Unverified(pasal) == [pasal |-> pasal, verified |-> FALSE, sources |-> <<>>]

Verified(pasal, pc, q) ==
    [pasal |-> pasal, verified |-> TRUE, sources |-> <<Hit(pc, q, pasal)>>]

VerifyAlone(pasal, rs) ==
    Only({ IF q > 0 THEN Verified(pasal, "bpk", q)
           ELSE IF ProbeOutcome("ma", rs[NumQueries + 1], pasal) = "match"
                THEN Verified(pasal, "ma", NumQueries)
           ELSE IF ProbeOutcome("google", rs[NumQueries + 2], pasal) = "match"
                THEN Verified(pasal, "google", NumQueries)
           ELSE Unverified(pasal) :
           q \in {BpkLoop(pasal, rs, 1)} })

----------------------------------------------------------------------------
(* Properties of verifyPasalOnline and of the handler *)

CallIds == 1..Len(vcall)

Returned(i) == vcall[i].pc = "returned"

Last(s) == s[Len(s)]

Sites(i) == { issued[i][k].site : k \in 1..Len(issued[i]) }

\* C1: once a probe of a call has matched, the call issues no later probe:
\* the one source of a verified key is the last request the call issued and
\* the call has returned; after a BPK match only BPK was requested, after a
\* Mahkamah Agung match Google was not requested.
C1_ShortCircuit ==
    \A i \in CallIds :
        vcall[i].results.verified =>
            /\ Returned(i)
            /\ Len(vcall[i].results.sources) = 1
            /\ vcall[i].results.sources[1].url = Last(issued[i])
            /\ vcall[i].results.sources[1].site = BPK => Sites(i) = {BPK}
            /\ vcall[i].results.sources[1].site = MA => GOOGLE \notin Sites(i)

\* BPK matched on its second query variant, and two requests were issued
C1_Witness ==
    \E i \in CallIds :
        /\ vcall[i].results.verified
        /\ vcall[i].results.sources[1].site = BPK
        /\ vcall[i].results.sources[1].url.query = Queries(PasalOnly(pasals[i]))[2]
        /\ Len(issued[i]) = 2

\* C2: no call ever issues a request to the general web search
C2_NoFallbackRequest ==
    \A i \in CallIds : GOOGLE \notin Sites(i)

\* the response k of a call answers a probe of this stage
StageOf(k) == IF k <= NumQueries THEN "bpk" ELSE IF k = NumQueries + 1 THEN "ma" ELSE "google"

OfficialProbes == 1..(NumQueries + 1)

\* C3: a call whose BPK probes and Mahkamah Agung probe all failed with a
\* transport error returns verified = false and sources = [], and does not throw
C3_TransportErrors ==
    \A i \in CallIds :
        (/\ Len(resps[i]) >= NumQueries + 1
         /\ \A k \in OfficialProbes : resps[i][k] = TransportError)
        => /\ vcall[i].pc # "threw"
           /\ Returned(i) => vcall[i].results = Unverified(pasals[i])

\* C4: Promise.all resolves to one result per key, the result at position i
\* being the result of the call for the key at position i, whatever the
\* order the calls completed in
C4_Positional ==
    hpc \in {"settled", "responded"} =>
        /\ Len(verifications) = Len(pasals)
        /\ \A i \in 1..Len(pasals) :
               /\ verifications[i].pasal = pasals[i]
               /\ verifications[i] = vcall[i].results

\* three keys, and the call of the second key completed last
C4_Witness ==
    /\ hpc = "settled"
    /\ Len(pasals) = 3
    /\ done = <<1, 3, 2>>
    /\ verifications[2].verified
    /\ ~verifications[3].verified

\* the probe k of call i ended in a TypeError
TypeErrorAt(i, k) == resps[i][k].kind = "ok" /\ resps[i][k].data.type = "object"

\* the probe k of call i matched
MatchAt(i, k) == ProbeOutcome(StageOf(k), resps[i][k], pasals[i]) = "match"

\* C5 as stated: the batch never fails, and a key whose verification met an
\* unexpected exception is reported unverified
C5_ExceptionMeansUnverified ==
    /\ hpc # "failed"
    /\ \A i \in CallIds :
           (Returned(i) /\ \E k \in 1..Len(resps[i]) : TypeErrorAt(i, k))
           => ~vcall[i].results.verified

\* C5 as amended: the batch never fails and no call throws; an exception in
\* a probe is caught at that probe and counts as no match of that probe
\* only: the call goes on with its remaining probes, and its key is verified
\* exactly when its last probe matched; every key has its result.
C5_ExceptionSkipsProbe ==
    /\ hpc # "failed"
    /\ \A i \in CallIds :
           /\ vcall[i].pc # "threw"
           /\ Returned(i) =>
                  /\ vcall[i].results.verified <=> MatchAt(i, Len(resps[i]))
                  /\ \A k \in 1..Len(resps[i]) :
                         Throws(resps[i][k]) =>
                             k = NumQueries + 2 \/ Len(resps[i]) > k
    /\ hpc \in {"settled", "responded"} => Len(verifications) = Len(pasals)

\* the first probe of a key ended in a TypeError, a later one verified the
\* key, and the batch settled with the sibling's result in place
C5_Witness ==
    /\ hpc = "settled"
    /\ Len(pasals) = 2
    /\ TypeErrorAt(1, 1)
    /\ verifications[1].verified
    /\ Len(resps[1]) > 1
    /\ ~verifications[2].verified

\* C6: the result of a call is the result verifyPasalOnline gives when it
\* runs alone on the key and on the responses to the call's own probes,
\* whatever the other calls did in between: as a lone run does, the call
\* ends before its last probe only at a match, and its result is the lone
\* run's result
C6_Independent ==
    \A i \in CallIds :
        Returned(i) =>
            /\ Len(resps[i]) < NumQueries + 2 => MatchAt(i, Len(resps[i]))
            /\ vcall[i].results = VerifyAlone(pasals[i], resps[i])

\* the first call completed verified while the second was under way, and
\* the second went on through all its probes to an unverified result
C6_Witness ==
    /\ Len(pasals) = 2
    /\ done = <<1, 2>>
    /\ vcall[1].results.verified
    /\ Len(resps[1]) = 1
    /\ ~vcall[2].results.verified
    /\ Len(resps[2]) = NumQueries + 2

\* the digits of a key "Pasal <number> <code>"
BareNumber(pasal) == SubSeq(pasal, 3, 2 + Run(pasal, 3, Digits))

\* the response k of call i is a page, and it answers a BPK or Mahkamah
\* Agung probe
OfficialPageAt(i, k) ==
    /\ k \in OfficialProbes
    /\ resps[i][k].kind = "ok"
    /\ resps[i][k].data.type = "string"

\* C11: for every key, what verify searches the page for is the bare number
\* of the key, and a BPK or Mahkamah Agung probe matches exactly when the
\* lower-cased page contains "pasal" and that number
C11_MatchOnBareNumber ==
    \A i \in CallIds :
        /\ PasalOnly(pasals[i]) = BareNumber(pasals[i])
        /\ \A k \in 1..Len(resps[i]) :
               OfficialPageAt(i, k) =>
                   (MatchAt(i, k) <=>
                        /\ Contains(LowerStr(resps[i][k].data.val), <<"pasal">>)
                        /\ Contains(LowerStr(resps[i][k].data.val), BareNumber(pasals[i])))

\* C12: in the result a call returns, verified is true exactly when sources
\* is not empty; sources holds at most one hit; the hit is that of the probe
\* that matched, the last one of the call: it names the site of that probe
\* and carries the url that was requested
C12_OneSourceOfTheMatch ==
    \A i \in CallIds :
        Returned(i) =>
            /\ vcall[i].results.verified <=> vcall[i].results.sources # <<>>
            /\ Len(vcall[i].results.sources) <= 1
            /\ vcall[i].results.verified =>
                   /\ MatchAt(i, Len(resps[i]))
                   /\ \A k \in 1..(Len(resps[i]) - 1) : ~MatchAt(i, k)
                   /\ vcall[i].results.sources[1].url = issued[i][Len(resps[i])]
                   /\ vcall[i].results.sources[1].site = issued[i][Len(resps[i])].site

\* a key verified by the Mahkamah Agung probe, the fourth request of its call
C12_Witness ==
    \E i \in CallIds :
        /\ Returned(i)
        /\ Len(resps[i]) = NumQueries + 1
        /\ vcall[i].results.sources # <<>>
        /\ vcall[i].results.sources[1].site = MA
        /\ vcall[i].results.sources[1].url = Url(MA, <<"Pasal", " ", "3", "4", "0">>)

\* the requests of a call that probes everything, in the order of the code
ProbeOrder(pasal) ==
    [k \in 1..(NumQueries + 2) |->
        IF k <= NumQueries THEN Url(BPK, Queries(PasalOnly(pasal))[k])
        ELSE IF k = NumQueries + 1 THEN Url(MA, <<"Pasal", " ">> \o PasalOnly(pasal))
        ELSE Url(GOOGLE, pasal \o <<" ", "KUHP">>)]

\* the requests of call i that have no response yet
Outstanding(i) == Len(issued[i]) - Len(resps[i])

\* C13: the requests of a call are a prefix of the fixed order (the BPK
\* variants in list order, then Mahkamah Agung), each issued at most once;
\* Mahkamah Agung is requested only after the three BPK variants have been
\* answered without a match; at most one request of a call is outstanding,
\* and none once the call has returned
C13_Sequential ==
    \A i \in CallIds :
        /\ Len(issued[i]) <= NumQueries + 2
        /\ issued[i] = SubSeq(ProbeOrder(pasals[i]), 1, Len(issued[i]))
        /\ \A j, k \in 1..Len(issued[i]) : issued[i][j] = issued[i][k] => j = k
        /\ Outstanding(i) = (IF vcall[i].pc \in Awaiting THEN 1 ELSE 0)
        /\ Len(issued[i]) > NumQueries =>
               \A k \in 1..NumQueries : k <= Len(resps[i]) /\ ~MatchAt(i, k)

\* the Mahkamah Agung request is outstanding, after three answered BPK
\* variants, while the other call of the batch is still at its first variant
C13_Witness ==
    /\ Len(pasals) = 2
    /\ vcall[1].pc = "ma"
    /\ Len(issued[1]) = NumQueries + 1
    /\ Len(resps[1]) = NumQueries
    /\ vcall[2].pc = "bpk"
    /\ vcall[2].q = 1

\* C14: a transport error on a BPK or Mahkamah Agung probe does not stop
\* the call: the call does not throw, the next request of the fixed order
\* is issued after it, and a probe that matches afterwards makes the key
\* verified
C14_ErrorIsNoMatch ==
    \A i \in CallIds :
        /\ vcall[i].pc # "threw"
        /\ \A k \in 1..Len(resps[i]) :
               (k \in OfficialProbes /\ resps[i][k] = TransportError) =>
                   /\ Len(issued[i]) > k
                   /\ issued[i][k + 1] = ProbeOrder(pasals[i])[k + 1]
                   /\ \A n \in (k + 1)..Len(resps[i]) :
                          MatchAt(i, n) => vcall[i].results.verified

\* the three BPK variants ended in transport errors and the Mahkamah Agung
\* page matched
C14_Witness ==
    \E i \in CallIds :
        /\ Len(resps[i]) = NumQueries + 1
        /\ \A k \in 1..NumQueries : resps[i][k] = TransportError
        /\ resps[i][NumQueries + 1] = Ok(StringValue(Html340))
        /\ vcall[i].results.verified
        /\ Returned(i)

\* C17: once Promise.all has resolved, and so when the response is sent,
\* every call of the batch has returned: no call awaits a probe, and every
\* call is in the completion list
C17_FanInBarrier ==
    hpc \in {"settled", "responded"} =>
        /\ \A i \in CallIds : Returned(i) /\ vcall[i].pc \notin Awaiting
        /\ Len(vcall) = Len(pasals)
        /\ {done[k] : k \in 1..Len(done)} = CallIds

\* the response of a batch of three was sent, the call of the first key
\* having completed last, after all its five probes
C17_Witness ==
    /\ hpc = "responded"
    /\ Len(pasals) = 3
    /\ done = <<3, 2, 1>>
    /\ Len(issued[1]) = NumQueries + 2

\* the handler has finished: it has answered and returned
Finished == hpc \in {"nokey", "apifailed", "failed", "responded"}

\* C20: on every path the handler sends exactly one response, and when the
\* response is sent no temp file of the request is left on disk
C20_CleanupOnEveryPath ==
    /\ Len(sent) <= 1
    /\ Finished => Len(sent) = 1
    /\ Len(sent) = 1 => uploads = {}

----------------------------------------------------------------------------
(* Properties of extractPasalReferences, checked under SpecExtract *)

NoDuplicates(s) == \A i, j \in 1..Len(s) : i # j => s[i] # s[j]

\* the printed keys of a returned list
Strs(r) == [i \in 1..Len(r) |-> Str(r[i])]

\* k mentions of the citation p
Repeat(p, k) == Join([j \in 1..k |-> p])

Pasal340KUHP == <<"Pasal", " ", "3", "4", "0", " ", "KUHP">>

\* C7: no returned list holds the same key twice; a text that repeats
\* "Pasal 340 KUHP" any number of times yields that one key; and repeating a
\* citation yields the list its single mention yields.
C7_NoDuplicateKeys ==
    \A i \in 1..Len(calls) :
        /\ NoDuplicates(calls[i].ret)
        /\ \A k \in 1..MaxRepeat :
             calls[i].arg = StringValue(Repeat(Pasal340KUHP, k))
                => calls[i].ret = <<Pasal340KUHP>>
        /\ \A p \in Mentions : \A k \in 2..MaxRepeat :
             calls[i].arg = StringValue(Repeat(p, k))
                => /\ Len(calls[i].ret) = Len(extractPasalReferences(p))
                   /\ \A j \in 1..Len(calls[i].ret) :
                        calls[i].ret[j] = extractPasalReferences(p)[j]

\* "Pasal 340 KUHP" three times has been scanned and gave one key
C7_Witness ==
    \E i \in 1..Len(calls) :
        /\ calls[i].arg = StringValue(Repeat(Pasal340KUHP, 3))
        /\ calls[i].ret = <<Pasal340KUHP>>

\* atoms that the code group of the first expression can capture
CodeWords == {"kuhp", "kuhap", "kitab"}

HasNoCode(t) == \A p \in 1..Len(t) : Lower(t[p]) \notin CodeWords

\* Pasal <one to four digits> KUHP
IsDefaultCodeKey(k) ==
    /\ Len(k) \in 5..8
    /\ SubSeq(k, 1, 2) = <<"Pasal", " ">>
    /\ SubSeq(k, Len(k) - 1, Len(k)) = <<" ", "KUHP">>
    /\ \A p \in 3..(Len(k) - 2) : k[p] \in Digits

\* C8: a mention without a code token yields a key with the code KUHP:
\* "Pasal 55" yields "Pasal 55 KUHP", the example text yields exactly
\* "Pasal 340 KUHP", "Pasal 55 KUHP", and a text without any code token
\* yields only keys of the form Pasal <number> KUHP.
C8_DefaultCode ==
    \A i \in 1..Len(calls) :
        /\ calls[i].arg = StringValue(ExampleText)
              => Strs(calls[i].ret) = <<"Pasal 340 KUHP", "Pasal 55 KUHP">>
        /\ calls[i].arg = StringValue(BareText)
              => Strs(calls[i].ret) = <<"Pasal 55 KUHP">>
        /\ \A mk \in Markers : \A n \in Numbers :
              (Len(n) <= 4 /\ calls[i].arg = StringValue(Mention(mk, n, <<>>)))
                 => calls[i].ret = << <<"Pasal", " ">> \o n \o <<" ", "KUHP">> >>
        /\ (calls[i].arg.type = "string" /\ HasNoCode(calls[i].arg.val))
              => \A j \in 1..Len(calls[i].ret) : IsDefaultCodeKey(calls[i].ret[j])

\* the example text has been scanned and gave the two keys
C8_Witness ==
    \E i \in 1..Len(calls) :
        /\ calls[i].arg = StringValue(ExampleText)
        /\ Strs(calls[i].ret) = <<"Pasal 340 KUHP", "Pasal 55 KUHP">>

\* C9: calls on identical input return identical ordered lists, also when
\* calls on other texts come in between.
C9_SameInputSameOutput ==
    \A i, j \in 1..Len(calls) :
        calls[i].arg = calls[j].arg
           => calls[i].ret = calls[j].ret /\ calls[i].threw = calls[j].threw

\* a text was scanned, then another text, then the first one again
C9_Witness ==
    /\ Len(calls) = 3
    /\ calls[1].arg = calls[3].arg
    /\ calls[2].arg # calls[1].arg
    /\ calls[1].ret # <<>>
    /\ calls[2].ret # <<>>
    /\ calls[2].ret # calls[1].ret
    /\ calls[3].ret = calls[1].ret

EmptyInputs == {StringValue(<<>>), NullValue, UndefinedValue}

\* C10: extract("") , extract(null) and extract(undefined) return the empty
\* list and raise no error.
C10_EmptyInput ==
    \A i \in 1..Len(calls) :
        calls[i].arg \in EmptyInputs => ~calls[i].threw /\ calls[i].ret = <<>>

\* null has been passed, after a call that found keys, and [] came back
C10_Witness ==
    /\ Len(calls) = 2
    /\ calls[1].ret # <<>>
    /\ calls[2].arg = NullValue
    /\ ~calls[2].threw /\ calls[2].ret = <<>>

\* the keys of all the matches of the first expression, in text order
RECURSIVE Found1(_, _)
Found1(t, li) ==
    Only({ IF ~m.found THEN <<>>
           ELSE <<Key(m.num, Suffix(m.code))>> \o Found1(t, m.end) :
           m \in {Exec(t, li)} })

\* the keys of all the matches of the second expression, in text order
RECURSIVE Found2(_, _)
Found2(t, li) ==
    Only({ IF ~m.found THEN <<>>
           ELSE <<Key(m.num, DefaultCode)>> \o Found2(t, m.end) :
           m \in {Exec2(t, li)} })

\* the positions of s that hold the first occurrence of their element
Firsts(s) == { k \in 1..Len(s) : \A j \in 1..(k - 1) : s[j] # s[k] }

\* the string calls that returned
Scans == { k \in 1..Len(calls) : calls[k].arg.type = "string" /\ ~calls[k].threw }

\* C15: the returned list holds every key once; a key of a pass 1 match
\* stands before every key that only pass 2 found, and within each pass
\* the keys stand in the order of their first match in the text
C15_FirstOccurrenceOrder ==
    \A c \in Scans :
        Only({ /\ Len(calls[c].ret) = Cardinality(Firsts(all))
               /\ \A k \in Firsts(all) :
                      calls[c].ret[Cardinality({j \in Firsts(all) : j <= k})] = all[k] :
               all \in {Found1(calls[c].arg.val, 0) \o Found2(calls[c].arg.val, 0)} })

\* "Pasal 340 KUHAP dan Pasal 12345"
KuhapFirstText == Join(<<Mention("Pasal", <<"3", "4", "0">>, <<" ", "KUHAP">>),
                         Mention("Pasal", <<"1", "2", "3", "4", "5">>, <<>>)>>)

\* the key pass 2 adds for the first mention stands after the pass 1 key of
\* the second mention
C15_Witness ==
    \E c \in Scans :
        /\ calls[c].arg.val = KuhapFirstText
        /\ Strs(calls[c].ret) = <<"Pasal 340 KUHAP", "Pasal 1234 KUHP", "Pasal 340 KUHP">>

\* the mentions of a text: the matches of the second expression
RECURSIVE Mentioned(_, _)
Mentioned(t, li) ==
    Only({ IF ~m.found THEN <<>> ELSE <<m>> \o Mentioned(t, m.end) :
           m \in {Exec2(t, li)} })

\* pass 1 captured every mention of the text: as many matches as mentions
CapturedByPass1(t) == Len(Found1(t, 0)) = Len(Mentioned(t, 0))

\* C16: when pass 1 captured every mention of the text, pass 2 appends
\* nothing: every returned key is the key of a pass 1 match, so a mention
\* with a code token contributes one key
C16_Pass2AddsOnlyMissed ==
    \A c \in Scans :
        CapturedByPass1(calls[c].arg.val) =>
            Only({ \A k \in 1..Len(calls[c].ret) :
                       \E j \in 1..Len(f1) : calls[c].ret[k] = f1[j] :
                   f1 \in {Found1(calls[c].arg.val, 0)} })

\* the numbers as they stand in the text after a marker word and blanks:
\* the whole run of digits
NumbersInText(t) ==
    { SubSeq(t, p + 1 + Run(t, p + 1, Spaces),
                p + Run(t, p + 1, Spaces) + Run(t, p + 1 + Run(t, p + 1, Spaces), Digits)) :
      p \in { q \in 1..Len(t) :
                /\ LitAt(t, q, <<"Pasal">>)
                /\ Run(t, q + 1, Spaces) >= 1
                /\ Run(t, q + 1 + Run(t, q + 1, Spaces), Digits) >= 1 } }

\* C18: the number of every returned key is a number that stands in the
\* text after the marker word, whole: no key carries a prefix of a longer
\* run of digits
C18_NumberAsInText ==
    \A c \in Scans :
        \A k \in 1..Len(calls[c].ret) :
            BareNumber(calls[c].ret[k]) \in NumbersInText(calls[c].arg.val)

\* the ceilings tried, in atoms
MaxCeiling == 8
Ceilings == 1..MaxCeiling

\* the keys of the matches of either expression that start at one of the
\* first c positions of the text
KeysWithin(t, c) ==
    { Key(m.num, Suffix(m.code)) : m \in { x \in {RegexAt(t, p) : p \in 1..c} : x.found } }
        \cup { Key(m.num, DefaultCode) : m \in { x \in {Regex2At(t, p) : p \in 1..c} : x.found } }

\* C19: there is a ceiling such that, for a text longer than it, every
\* returned key comes from a mention that starts within the ceiling
C19_LengthCeiling ==
    \E c \in Ceilings :
        \A k \in Scans :
            Len(calls[k].arg.val) > c =>
                \A j \in 1..Len(calls[k].ret) :
                    calls[k].ret[j] \in KeysWithin(calls[k].arg.val, c)

----------------------------------------------------------------------------
(* The upload page (public/app.js:8-35, 47-49) *)

\* the names a chosen file may have
FileNames == {"a.pdf", "b.txt"}

\* the File object number n, with the name nm
File(n, nm) == [id |-> n, name |-> nm]

\* the files of one change event: one or two File objects, new ones
Chosen(names) == [k \in 1..Len(names) |-> File(added + k, names[k])]

Selections == UNION {[1..k -> FileNames] : k \in 1..2}

\* the sequence s without its element at position k
Without(s, k) == SubSeq(s, 1, k - 1) \o SubSeq(s, k + 1, Len(s))

\* addFiles(files): every file is pushed and gets an item with a button
AddFiles(files) ==
    /\ added + Len(files) <= MaxAdded
    /\ filesToUpload' = filesToUpload \o files
    /\ fileList' = fileList \o files
    /\ added' = added + Len(files)
    /\ UNCHANGED <<extractVars, handlerVars, requestVars>>

\* the change event of #fileInput
Change == \E names \in Selections : AddFiles(Chosen(names))

\* filesToUpload.filter(x => x.name !== f.name)
FilterOut(f) ==
    LET Keep(x) == x.name # f.name IN SelectSeq(filesToUpload, Keep)

\* a click on the Hapus button of the item at position k, whose closure
\* holds the file f: the filter, then fileList.removeChild(item)
Hapus(k) ==
    /\ k \in 1..Len(fileList)
    /\ filesToUpload' = FilterOut(fileList[k])
    /\ fileList' = Without(fileList, k)
    /\ UNCHANGED <<added, extractVars, handlerVars, requestVars>>

HapusClick == \E k \in 1..Len(fileList) : Hapus(k)

\* a click on #clearBtn
ClearClick ==
    /\ filesToUpload' = <<>>
    /\ fileList' = <<>>
    /\ UNCHANGED <<added, extractVars, handlerVars, requestVars>>

\* the files a click on #analyzeBtn appends to the form, in order
FormFiles == filesToUpload

InitUi == ExtractIdle /\ HandlerIdle /\ UiIdle

NextUi == Change \/ HapusClick \/ ClearClick

SpecUi == InitUi /\ [][NextUi]_vars

\* C21: the files that Analyze would send are exactly the files whose
\* items the list displays, in the same order
C21_ListShowsUploads == FormFiles = fileList

=============================================================================
